---- MODULE Spec2Model ----
(***************************************************************************)
(* A model of src/face.js of mouthy-bird: the settings record and its      *)
(* local-storage mirror, the interval timer that starts detection ticks,   *)
(* the two control signals derived from a face's landmarks, and the        *)
(* debounced call of resetGame().                                          *)
(*                                                                         *)
(* Numbers.  JavaScript numbers are modelled as exact rationals <<n, d>>   *)
(* in lowest terms with d > 0, extended with the three IEEE values a       *)
(* division can produce here: NaN = <<0, 0>>, +Infinity = <<1, 0>> and     *)
(* -Infinity = <<-1, 0>>.  Rounding of doubles is not modelled.            *)
(* settings.scoreThreshold is held in tenths (0.5 is 5).                   *)
(***************************************************************************)
EXTENDS Integers, Sequences, FiniteSets, TLC

VARIABLES
    localStorage,      \* the item "faceDetectionSettings": [has, text]
    objects,           \* the heap: object id -> record
    settings,          \* `settings`: the id of the object it refers to
    initPc,            \* how far init() has run
    timers,            \* the interval timers that are active: [id, period]
    intervalId,        \* `intervalId` (0 is undefined)
    inFlight,          \* executions of detectFaces awaiting their detection
    mouthOpen,         \* `mouthOpen`
    leftEyebrowRaise,  \* `leftEyebrowRaise`
    lastResetTime,     \* `lastResetTime`
    now,               \* Date.now()
    gameRunning,       \* what isGameRunning() returns
    resetCalls,        \* the Date.now() of every resetGame() call, oldest first
    canvas,            \* what is drawn on the overlay since its last clearRect
    tickLog            \* the most recent tick, face by face

vars == <<localStorage, objects, settings, initPc, timers, intervalId, inFlight,
          mouthOpen, leftEyebrowRaise, lastResetTime, now,
          gameRunning, resetCalls, canvas, tickLog>>

----------------------------------------------------------------------------
(* Bounds of the model *)

MaxFaces == 2          \* faces one detection returns
MaxInFlight == 2       \* detections awaited together
MaxTimers == 2         \* interval timers alive together
MaxElapsed == 6001     \* milliseconds the clock runs past StartTime

----------------------------------------------------------------------------
(* Numbers.  The arithmetic is written as functions: a function is applied  *)
(* to the value of its argument.                                           *)

Abs(i) == IF i < 0 THEN -i ELSE i

Sign(i) == IF i < 0 THEN -1 ELSE IF i > 0 THEN 1 ELSE 0

GCD[a \in Nat, b \in Nat] == IF b = 0 THEN a ELSE GCD[b, a % b]

NaN == <<0, 0>>

Rat[n \in Int, d \in Int] ==
    IF d = 0 THEN <<Sign(n), 0>>
    ELSE LET g == GCD[Abs(n), Abs(d)]
         IN  <<Sign(d) * (n \div g), Abs(d) \div g>>

Num(i) == <<i, 1>>

Number == Int \X Int

IsNaN(a) == a = NaN

IsFinite(a) == a[2] # 0

\* a < b; false when either is NaN, as every comparison with NaN is
Less[a \in Number, b \in Number] ==
    /\ ~IsNaN(a)
    /\ ~IsNaN(b)
    /\ a # b
    /\ IF a[2] = 0 THEN a[1] < 0
       ELSE IF b[2] = 0 THEN b[1] > 0
       ELSE a[1] * b[2] < b[1] * a[2]

\* a - b for a finite b
Minus[a \in Number, b \in Number] ==
    IF ~IsFinite(a) THEN a
    ELSE Rat[a[1] * b[2] - b[1] * a[2], a[2] * b[2]]

\* a / b for a finite b
Divide[a \in Number, b \in Number] ==
    IF IsNaN(a) THEN NaN
    ELSE IF ~IsFinite(a) THEN (IF b[1] = 0 THEN a ELSE <<a[1] * Sign(b[1]), 0>>)
    ELSE Rat[a[1] * b[2], a[2] * b[1]]

\* Math.min and Math.max return NaN when an argument is NaN
MathMin[a \in Number, b \in Number] ==
    IF IsNaN(a) \/ IsNaN(b) THEN NaN ELSE IF Less[b, a] THEN b ELSE a

MathMax[a \in Number, b \in Number] ==
    IF IsNaN(a) \/ IsNaN(b) THEN NaN ELSE IF Less[a, b] THEN b ELSE a

\* Math.sqrt, on the perfect squares the modelled landmarks produce
MathSqrt[n \in Nat] == CHOOSE r \in 0..n : r * r = n

----------------------------------------------------------------------------
(* The settings record and its mirror in local storage *)

defaultSettings ==
    [inputSize |-> 256,
     detectionInterval |-> 20,
     scoreThreshold |-> 5,
     eyebrowThresholdFloor |-> 18,
     eyebrowThresholdCeil |-> 25,
     mouthThresholdFloor |-> 10,
     mouthThresholdCeil |-> 39,
     pitchFloor |-> 20,
     pitchCeil |-> 400,
     model |-> "tinyFaceDetector",
     showLandmarks |-> FALSE,
     showGraphics |-> TRUE]

\* The order in which an object's keys are written out.  "volume" stands for
\* a key that a record saved by another version of the page may hold.
KeyOrder ==
    <<"inputSize", "detectionInterval", "scoreThreshold", "eyebrowThresholdFloor",
      "eyebrowThresholdCeil", "mouthThresholdFloor", "mouthThresholdCeil",
      "pitchFloor", "pitchCeil", "model", "showLandmarks", "showGraphics", "volume">>

\* typeof the value held under a key
TypeOf(key) ==
    IF key \in {"showLandmarks", "showGraphics"} THEN "boolean"
    ELSE IF key = "model" THEN "string"
    ELSE "number"

DigitChar == <<"0", "1", "2", "3", "4", "5", "6", "7", "8", "9">>

RECURSIVE NumberToString(_)
NumberToString(n) ==
    IF n < 10 THEN <<DigitChar[n + 1]>>
    ELSE Append(NumberToString(n \div 10), DigitChar[(n % 10) + 1])

DigitValue(c) == (CHOOSE i \in 1..10 : DigitChar[i] = c) - 1

RECURSIVE StringToNumber(_)
StringToNumber(cs) ==
    IF cs = <<>> THEN 0
    ELSE 10 * StringToNumber(SubSeq(cs, 1, Len(cs) - 1)) + DigitValue(cs[Len(cs)])

\* The JSON literal of a value, as a sequence of characters (a string's
\* content is kept as one element between its quotes).
ValueToJSON(type, v) ==
    IF type = "boolean" THEN (IF v THEN <<"t", "r", "u", "e">> ELSE <<"f", "a", "l", "s", "e">>)
    ELSE IF type = "string" THEN <<"\"", v, "\"">>
    ELSE NumberToString(v)

JSONToValue(lit) ==
    IF lit[1] = "t" THEN TRUE
    ELSE IF lit[1] = "f" THEN FALSE
    ELSE IF lit[1] = "\"" THEN lit[2]
    ELSE StringToNumber(lit)

KeysInOrder(obj) == SelectSeq(KeyOrder, LAMBDA k : k \in DOMAIN obj)

\* JSON.stringify of a flat object: its members, in key order
JSONstringify(obj) ==
    LET keys == KeysInOrder(obj)
    IN  [i \in 1..Len(keys) |->
            [key |-> keys[i], val |-> ValueToJSON(TypeOf(keys[i]), obj[keys[i]])]]

\* JSON.parse of such a text; a repeated key keeps its last value
JSONparse(text) ==
    LET keys == {text[i].key : i \in 1..Len(text)}
        last(k) == CHOOSE i \in 1..Len(text) :
                      /\ text[i].key = k
                      /\ \A j \in (i + 1)..Len(text) : text[j].key # k
    IN  [k \in keys |-> JSONToValue(text[last(k)].val)]

NoItem == [has |-> FALSE, text |-> <<>>]

Item(text) == [has |-> TRUE, text |-> text]

\* loadSettings(), a mutant: the defaults are used in place, not copied
LoadSettingsShared(store, objs) ==
    LET parsed == IF store.has THEN JSONparse(store.text) ELSE objs.defaultSettings
        defaults == objs.defaultSettings
        filled == [k \in DOMAIN parsed \cup DOMAIN defaults |->
                      IF k \in DOMAIN parsed THEN parsed[k] ELSE defaults[k]]
    IN  IF store.has
        THEN [ref |-> "loaded",
              objects |-> [defaultSettings |-> defaults, loaded |-> filled]]
        ELSE [ref |-> "defaultSettings",
              objects |-> [defaultSettings |-> filled, loaded |-> filled]]

\* loadSettings(): the object it returns, and the heap after it
LoadSettings(store, objs) ==
    LET parsed == IF store.has THEN JSONparse(store.text) ELSE objs.defaultSettings
        defaults == objs.defaultSettings
        filled == [k \in DOMAIN parsed \cup DOMAIN defaults |->
                      IF k \in DOMAIN parsed THEN parsed[k] ELSE defaults[k]]
    IN  [ref |-> "loaded",
         objects |-> [defaultSettings |-> defaults, loaded |-> filled]]

\* saveSettings(settings), a mutant: the two display switches are not written
SaveSettingsPartial(obj) ==
    Item(JSONstringify([k \in DOMAIN obj \ {"showLandmarks", "showGraphics"} |-> obj[k]]))

\* saveSettings(settings): the item stored under "faceDetectionSettings"
SaveSettings(obj) == Item(JSONstringify(obj))

\* the record `settings` refers to
Settings == objects[settings]

\* The positions of the panel's controllers that the model moves them to
PanelValues(key) ==
    CASE key = "inputSize" -> {256, 288}
      [] key = "detectionInterval" -> {20, 40}
      [] key = "scoreThreshold" -> {5, 6}
      [] key = "eyebrowThresholdFloor" -> {18, 25}
      [] key = "eyebrowThresholdCeil" -> {18, 25}
      [] key = "mouthThresholdFloor" -> {10, 39}
      [] key = "mouthThresholdCeil" -> {10, 39}
      [] key = "model" -> {"tinyFaceDetector", "ssdMobilenetv1"}
      [] key = "showLandmarks" -> BOOLEAN
      [] key = "showGraphics" -> BOOLEAN
      [] key = "pitchFloor" -> {20, 21}
      [] key = "pitchCeil" -> {400, 401}

PanelKeys == DOMAIN defaultSettings

\* The items a page load may find under "faceDetectionSettings": nothing, a
\* record this version saved, one saved before the pitch keys and the display
\* switches existed, and one that holds a key this version does not know.
SavedItems ==
    {NoItem,
     Item(JSONstringify([defaultSettings EXCEPT !.eyebrowThresholdCeil = 18,
                                                !.showLandmarks = TRUE])),
     Item(JSONstringify([k \in DOMAIN defaultSettings \
                               {"pitchFloor", "pitchCeil", "showLandmarks", "showGraphics"} |->
                            IF k = "mouthThresholdFloor" THEN 39 ELSE defaultSettings[k]])),
     Item(JSONstringify([k \in DOMAIN defaultSettings \cup {"volume"} |->
                            IF k = "volume" THEN 7 ELSE defaultSettings[k]]))}

----------------------------------------------------------------------------
(* Landmarks and the two control signals *)

Point(x, y) == [x |-> x, y |-> y]

BrowPoints == 5

MouthPoints == 20

\* An eye of n points on the line y = 100, starting at x = x0
MakeEye(n, x0) == [i \in 1..n |-> Point(x0 + 10 * (i - 1), 100)]

\* An eyebrow `lift` above the eye line, its middle point `arch` higher
MakeEyebrow(lift, arch, x0) ==
    [i \in 1..BrowPoints |->
        Point(x0 + 10 * (i - 1), 100 - lift - (IF i = 3 THEN arch ELSE 0))]

\* A mouth whose points 3 and 9 (counted from 0) lie gap[1] apart in x and
\* gap[2] apart in y
MakeMouth(gap) ==
    [i \in 1..MouthPoints |->
        IF i = 10 THEN Point(50 + gap[1], 150 + gap[2]) ELSE Point(50, 150)]

MakeFace(nLeft, nRight, left, right, gap) ==
    [leftEye |-> MakeEye(nLeft, 0),
     rightEye |-> MakeEye(nRight, 100),
     leftEyebrow |-> MakeEyebrow(left[1], left[2], 0),
     rightEyebrow |-> MakeEyebrow(right[1], right[2], 100),
     mouth |-> MakeMouth(gap)]

EuclideanDistance(point1, point2) ==
    LET dx == point1.x - point2.x
        dy == point1.y - point2.y
    IN  Num(MathSqrt[dx * dx + dy * dy])

\* Math.max(0.0, Math.min(1.0, normalizedValue))
Clamp(normalizedValue) == MathMax[Num(0), MathMin[Num(1), normalizedValue]]

CalculateEyebrowRaise(eyebrow, eye, s) ==
    LET verticalDistances ==
            [i \in 1..Len(eyebrow) |->
                IF i <= Len(eye) THEN Abs(eyebrow[i].y - eye[i].y) ELSE 0]
        sum[n \in 0..Len(eyebrow)] ==
            IF n = 0 THEN 0 ELSE sum[n - 1] + verticalDistances[n]
        averageDistance == Rat[sum[Len(eyebrow)], Len(eyebrow)]
        normalizedValue ==
            Divide[Minus[averageDistance, Num(s.eyebrowThresholdFloor)],
                   Num(s.eyebrowThresholdCeil - s.eyebrowThresholdFloor)]
    IN  Clamp(normalizedValue)

CalculateMouthOpen(mouth, s) ==
    LET verticalDistance == EuclideanDistance(mouth[4], mouth[10])
        normalizedValue ==
            Divide[Minus[verticalDistance, Num(s.mouthThresholdFloor)],
                   Num(s.mouthThresholdCeil - s.mouthThresholdFloor)]
    IN  Clamp(normalizedValue)

----------------------------------------------------------------------------
(* The loop of detectFaces over the faces of one detection *)

ResetThreshold == <<7, 10>>

ResetDebounce == 3000

EyePoints == 6

DrawCommand(shape, face, x, y, size, alpha) ==
    [shape |-> shape, face |-> face, x |-> x, y |-> y, size |-> size, alpha |-> alpha]

\* faceapi.draw.drawDetections, drawFaceLandmarks and drawFaceExpressions
DrawOverlay(n) ==
    {DrawCommand(shape, i, Num(0), Num(0), 0, Num(1)) :
        shape \in {"detection", "landmarks", "expressions"}, i \in 1..n}

\* What the loop reads and writes; `console` counts the messages logged and
\* `log` records, for each face the loop has been through, what it did
LoopState(raise, mouth, last, time, running, calls) ==
    [leftEyebrowRaise |-> raise, mouthOpen |-> mouth, lastResetTime |-> last,
     now |-> time, gameRunning |-> running, resetCalls |-> calls, canvas |-> {},
     console |-> 0, log |-> <<>>]

Signals(st) == <<st.leftEyebrowRaise, st.mouthOpen, st.lastResetTime>>

WellFormed(face) == Len(face.leftEye) = EyePoints /\ Len(face.rightEye) = EyePoints

\* the condition of the reset, a mutant: either eyebrow triggers it
ShouldResetEitherBrow(running, leftRaise, rightRaise, currentTime, last) ==
    /\ ~running
    /\ (Less[ResetThreshold, leftRaise] \/ Less[ResetThreshold, rightRaise])
    /\ currentTime - last > ResetDebounce

\* the condition of the reset, a mutant: the debounce admits the 3000th ms
ShouldResetEarly(running, leftRaise, rightRaise, currentTime, last) ==
    /\ ~running
    /\ Less[ResetThreshold, leftRaise]
    /\ currentTime - last >= ResetDebounce

\* the condition of the reset, a mutant: the debounce compares the wrong way
ShouldResetBackwards(running, leftRaise, rightRaise, currentTime, last) ==
    /\ ~running
    /\ Less[ResetThreshold, leftRaise]
    /\ currentTime - last < ResetDebounce

\* the condition under which the loop calls resetGame()
ShouldReset(running, leftRaise, rightRaise, currentTime, last) ==
    /\ ~running
    /\ Less[ResetThreshold, leftRaise]
    /\ currentTime - last > ResetDebounce

\* the graphics of one face, given its signals
FaceGraphics(face, idx, leftRaise, rightRaise, mouth) ==
    LET leftEye == face.leftEye
        rightEye == face.rightEye
        leftCircle ==
            IF Less[Num(0), leftRaise]
            THEN {DrawCommand("circle", idx, Rat[leftEye[1].x + leftEye[4].x, 2],
                              Rat[leftEye[2].y + leftEye[6].y, 2], 5, leftRaise)}
            ELSE {}
        rightCircle ==
            IF Less[Num(0), rightRaise]
            THEN {DrawCommand("circle", idx, Rat[rightEye[1].x + rightEye[4].x, 2],
                              Rat[rightEye[2].y + rightEye[6].y, 2], 5, rightRaise)}
            ELSE {}
        diamond ==
            IF Less[Num(0), mouth]
            THEN {DrawCommand("diamond", idx, Rat[leftEye[1].x + rightEye[4].x, 2],
                              Rat[face.leftEyebrow[3].y + face.rightEyebrow[3].y - 40, 2],
                              10, mouth)}
            ELSE {}
    IN  leftCircle \cup rightCircle \cup diamond

\* the well-formed branch of the loop's body, given the face's signals
UpdateFromFace(st, face, idx, s, runsAfterReset, leftRaise, rightRaise, mouth) ==
    LET currentTime == st.now
        reset == ShouldReset(st.gameRunning, leftRaise, rightRaise, currentTime,
                             st.lastResetTime)
    IN  [st EXCEPT
           !.leftEyebrowRaise = leftRaise,
           !.mouthOpen = mouth,
           !.lastResetTime = IF reset THEN currentTime ELSE @,
           !.gameRunning = IF reset THEN runsAfterReset ELSE @,
           !.resetCalls = IF reset THEN Append(@, currentTime) ELSE @,
           !.canvas = IF s.showGraphics
                      THEN @ \cup FaceGraphics(face, idx, leftRaise, rightRaise, mouth)
                      ELSE @]

\* the value of a one-element set (a set constructor binds its variable to a
\* value that is computed once)
The(set) == CHOOSE x \in set : TRUE

\* the signals of a well-formed face: left raise, right raise, mouth
FaceSignals(st, face, s) ==
    <<CalculateEyebrowRaise(face.leftEyebrow, face.leftEye, s),
      CalculateEyebrowRaise(face.rightEyebrow, face.rightEye, s),
      IF s.showGraphics THEN CalculateMouthOpen(face.mouth, s) ELSE st.mouthOpen>>

\* the loop's body, a mutant: a malformed face zeroes the signals
ProcessFaceZeroing(st, face, idx, s, runsAfterReset) ==
    IF WellFormed(face)
    THEN The({UpdateFromFace(st, face, idx, s, runsAfterReset, v[1], v[2], v[3]) :
                 v \in {FaceSignals(st, face, s)}})
    ELSE [st EXCEPT !.leftEyebrowRaise = Num(0), !.mouthOpen = Num(0),
                    !.console = @ + 1]

\* the loop's body for one face
ProcessFace(st, face, idx, s, runsAfterReset) ==
    IF WellFormed(face)
    THEN The({UpdateFromFace(st, face, idx, s, runsAfterReset, v[1], v[2], v[3]) :
                 v \in {FaceSignals(st, face, s)}})
    ELSE [st EXCEPT !.console = @ + 1]

\* What one iteration did, seen from outside: the face, of how many, what
\* isGameRunning() was, whether the signals and lastResetTime stayed as they
\* were, whether resetGame() was called and whether a message was logged
Observe(before, after, face, count) ==
    [after EXCEPT
        !.log = Append(@, [face |-> face,
                           of |-> count,
                           running |-> before.gameRunning,
                           kept |-> Signals(after) = Signals(before),
                           reset |-> after.resetCalls # before.resetCalls,
                           logged |-> after.console # before.console])]

\* the iteration on face idx
Iteration(st, detections, idx, s, runsAfterReset) ==
    The({Observe(st, after, detections[idx], Len(detections)) :
            after \in {ProcessFace(st, detections[idx], idx, s, runsAfterReset)}})

\* for (let detection of resizedDetections), from face idx on
RECURSIVE DetectLoop(_, _, _, _, _)
DetectLoop(st, detections, idx, s, runsAfterReset) ==
    IF idx > Len(detections) THEN st
    ELSE The({DetectLoop(next, detections, idx + 1, s, runsAfterReset) :
                 next \in {Iteration(st, detections, idx, s, runsAfterReset)}})

\* detectFaces after its await: the overlay is cleared and drawn again
DetectFacesBody(st, detections, s, runsAfterReset) ==
    The({DetectLoop(cleared, detections, 1, s, runsAfterReset) :
            cleared \in {[st EXCEPT !.canvas = IF s.showLandmarks
                                                THEN DrawOverlay(Len(detections))
                                                ELSE {}]}})

----------------------------------------------------------------------------
(* The interval timer *)

\* setInterval: a timer of the given period joins the active ones
SetInterval(active, period) ==
    LET id == CHOOSE i \in 1..(Cardinality(active) + 1) : \A t \in active : t.id # i
    IN  [timers |-> active \cup {[id |-> id, period |-> period]}, intervalId |-> id]

ClearInterval(active, id) == {t \in active : t.id # id}

\* onPlay, a mutant: the old timer is not cancelled
OnPlayNoClear(active, id, s) == SetInterval(active, s.detectionInterval)

\* onPlay(videoEl): the active timers and intervalId after it
OnPlay(active, id, s) == SetInterval(ClearInterval(active, id), s.detectionInterval)

----------------------------------------------------------------------------
(* The state machine *)

\* Date.now() when the page loads, in milliseconds: any value past the
\* debounce period stands for the epoch time of a real clock
StartTime == 10000

EndTime == StartTime + MaxElapsed

\* The steps in which the model's clock advances
ClockSteps == {ResetDebounce \div 2, ResetDebounce, ResetDebounce + 1}

SeqsUpTo(S, n) == UNION {[1..k -> S] : k \in 0..n}

\* What a detection may return when these are the faces before the camera
Detections(faces) == SeqsUpTo(faces, MaxFaces)

\* The module's top level: the state when the page has loaded
Load(item) ==
    LET loaded == LoadSettings(item, [defaultSettings |-> defaultSettings])
    IN  /\ objects = loaded.objects
        /\ settings = loaded.ref
        /\ initPc = "models"
        /\ timers = {}
        /\ intervalId = 0
        /\ inFlight = 0
        /\ mouthOpen = Num(0)
        /\ leftEyebrowRaise = Num(0)
        /\ lastResetTime = 0
        /\ gameRunning = FALSE
        /\ resetCalls = <<>>
        /\ canvas = {}
        /\ tickLog = <<>>

InitWith(items) ==
    /\ localStorage \in items
    /\ now = StartTime
    /\ Load(localStorage)

\* init() up to the await in setupWebcam: the video element is in the page
InitSetupWebcam ==
    /\ initPc = "models"
    /\ initPc' = "webcam"
    /\ UNCHANGED <<localStorage, objects, settings, timers, intervalId, inFlight,
                   mouthOpen, leftEyebrowRaise, lastResetTime, now, gameRunning,
                   resetCalls, canvas, tickLog>>

\* the rest of init(): the 'play' listener, the canvas and the panel
InitReady ==
    /\ initPc = "webcam"
    /\ initPc' = "ready"
    /\ UNCHANGED <<localStorage, objects, settings, timers, intervalId, inFlight,
                   mouthOpen, leftEyebrowRaise, lastResetTime, now, gameRunning,
                   resetCalls, canvas, tickLog>>

\* the video's 'play' event
VideoPlay ==
    /\ initPc = "ready"
    /\ LET played == OnPlay(timers, intervalId, Settings)
       IN  /\ Cardinality(played.timers) <= MaxTimers
           /\ timers' = played.timers
           /\ intervalId' = played.intervalId
    /\ UNCHANGED <<localStorage, objects, settings, initPc, inFlight, mouthOpen,
                   leftEyebrowRaise, lastResetTime, now, gameRunning, resetCalls,
                   canvas, tickLog>>

\* a controller of the panel sets its key and calls onSettingsChange
OnSettingsChange(keys) ==
    /\ initPc = "ready"
    /\ \E key \in keys : \E value \in PanelValues(key) :
          LET changed == [Settings EXCEPT ![key] = value]
              played == OnPlay(timers, intervalId, changed)
          IN  /\ Cardinality(played.timers) <= MaxTimers
              /\ objects' = [objects EXCEPT ![settings] = changed]
              /\ localStorage' = SaveSettings(changed)
              /\ timers' = played.timers
              /\ intervalId' = played.intervalId
    /\ UNCHANGED <<settings, initPc, inFlight, mouthOpen, leftEyebrowRaise,
                   lastResetTime, now, gameRunning, resetCalls, canvas, tickLog>>

\* an active timer fires: detectFaces runs up to its await
TimerFire ==
    /\ timers # {}
    /\ inFlight < MaxInFlight
    /\ inFlight' = inFlight + 1
    /\ UNCHANGED <<localStorage, objects, settings, initPc, timers, intervalId,
                   mouthOpen, leftEyebrowRaise, lastResetTime, now, gameRunning,
                   resetCalls, canvas, tickLog>>

\* a detection resolves: detectFaces runs from its await to its end
DetectFaces(results, runs) ==
    /\ inFlight > 0
    /\ \E detections \in results, runsAfterReset \in runs :
          \E st \in {DetectFacesBody(
                        LoopState(leftEyebrowRaise, mouthOpen, lastResetTime, now,
                                  gameRunning, resetCalls),
                        detections, Settings, runsAfterReset)} :
              /\ leftEyebrowRaise' = st.leftEyebrowRaise
              /\ mouthOpen' = st.mouthOpen
              /\ lastResetTime' = st.lastResetTime
              /\ gameRunning' = st.gameRunning
              /\ resetCalls' = st.resetCalls
              /\ canvas' = st.canvas
              /\ tickLog' = st.log
    /\ inFlight' = inFlight - 1
    /\ UNCHANGED <<localStorage, objects, settings, initPc, timers, intervalId, now>>

\* time passes
ClockAdvance ==
    /\ \E d \in ClockSteps :
          /\ now + d <= EndTime
          /\ now' = now + d
    /\ UNCHANGED <<localStorage, objects, settings, initPc, timers, intervalId,
                   inFlight, mouthOpen, leftEyebrowRaise, lastResetTime, gameRunning,
                   resetCalls, canvas, tickLog>>

\* the game starts or ends by itself
GameChanges ==
    /\ gameRunning' = ~gameRunning
    /\ UNCHANGED <<localStorage, objects, settings, initPc, timers, intervalId,
                   inFlight, mouthOpen, leftEyebrowRaise, lastResetTime, now,
                   resetCalls, canvas, tickLog>>

\* the page is loaded again: the top level runs on what local storage holds
Reload ==
    /\ LET loaded == LoadSettings(localStorage, [defaultSettings |-> defaultSettings])
       IN  /\ objects' = loaded.objects
           /\ settings' = loaded.ref
    /\ initPc' = "models"
    /\ timers' = {}
    /\ intervalId' = 0
    /\ inFlight' = 0
    /\ mouthOpen' = Num(0)
    /\ leftEyebrowRaise' = Num(0)
    /\ lastResetTime' = 0
    /\ gameRunning' = FALSE
    /\ resetCalls' = <<>>
    /\ canvas' = {}
    /\ tickLog' = <<>>
    /\ UNCHANGED <<localStorage, now>>

----------------------------------------------------------------------------
(* Faces *)

Raised == <<30, 0>>

Level == <<18, 0>>

\* left eyebrow at the floor, right eyebrow raised, mouth at its floor
FaceRightOnly == MakeFace(6, 6, Level, Raised, <<0, 10>>)

\* left eyebrow at 5/7 of the default range, mouth half open
FaceLeftUp == MakeFace(6, 6, <<23, 0>>, Level, <<15, 20>>)

\* left eyebrow arched to an average of 22.4, mouth wide open
FaceArched == MakeFace(6, 6, <<22, 2>>, Level, <<0, 39>>)

\* a left eye of 5 points
FaceShortLeftEye == MakeFace(5, 6, Raised, Raised, <<0, 39>>)

\* a right eye of 7 points
FaceLongRightEye == MakeFace(6, 7, Raised, Raised, <<15, 20>>)

SignalFaces == {FaceRightOnly, FaceLeftUp, FaceArched, FaceShortLeftEye}

SignalKeys == {"eyebrowThresholdCeil", "mouthThresholdCeil", "showGraphics"}

MalformedFaces == {FaceLeftUp, FaceShortLeftEye, FaceLongRightEye}

DisplayKeys == {"showLandmarks", "showGraphics"}

ResetFaces == {FaceRightOnly, FaceLeftUp, FaceShortLeftEye}

DebounceFaces == {FaceRightOnly, FaceLeftUp}

RaisedFaces == {FaceLeftUp}

TimerKeys == {"detectionInterval", "inputSize"}

----------------------------------------------------------------------------
(* Specifications *)

\* The signals: ticks under changing thresholds
Init == InitWith({NoItem})

Next ==
    \/ InitSetupWebcam
    \/ InitReady
    \/ VideoPlay
    \/ OnSettingsChange(SignalKeys)
    \/ TimerFire
    \/ DetectFaces(Detections(SignalFaces), {TRUE})

Spec == Init /\ [][Next]_vars

\* Malformed faces among well-formed ones, under the display switches
NextMalformed ==
    \/ InitSetupWebcam
    \/ InitReady
    \/ VideoPlay
    \/ OnSettingsChange(DisplayKeys)
    \/ TimerFire
    \/ DetectFaces(Detections(MalformedFaces), {TRUE})

SpecMalformed == Init /\ [][NextMalformed]_vars

\* The reset: ticks on raised, level and malformed faces while the game
\* starts and ends, and stays stopped or runs after resetGame()
NextReset ==
    \/ InitSetupWebcam
    \/ InitReady
    \/ VideoPlay
    \/ TimerFire
    \/ DetectFaces(Detections(ResetFaces), BOOLEAN)
    \/ GameChanges

SpecReset == Init /\ [][NextReset]_vars

\* The debounce: ticks while the clock runs and the game starts and ends
NextDebounce ==
    \/ InitSetupWebcam
    \/ InitReady
    \/ VideoPlay
    \/ TimerFire
    \/ DetectFaces(Detections(DebounceFaces), {TRUE})
    \/ ClockAdvance
    \/ GameChanges

SpecDebounce == Init /\ [][NextDebounce]_vars

\* The timer: play events, changes of the period and ticks
NextTimer ==
    \/ InitSetupWebcam
    \/ InitReady
    \/ VideoPlay
    \/ OnSettingsChange(TimerKeys)
    \/ TimerFire
    \/ DetectFaces(Detections({FaceLeftUp}), {TRUE})
    \/ ClockAdvance

SpecTimer == Init /\ [][NextTimer]_vars

\* The settings: page loads on what was saved, and changes through the panel
InitSettings == InitWith(SavedItems)

NextSettings ==
    \/ InitSetupWebcam
    \/ InitReady
    \/ VideoPlay
    \/ OnSettingsChange(PanelKeys)
    \/ Reload

SpecSettings == InitSettings /\ [][NextSettings]_vars

\* A stopped game before a raised eyebrow: the game never runs, every tick
\* detects faces with the left eyebrow raised, and the timer, the detections
\* and the clock keep going
NextLive ==
    \/ InitSetupWebcam
    \/ InitReady
    \/ VideoPlay
    \/ TimerFire
    \/ DetectFaces(Detections(RaisedFaces) \ {<<>>}, {FALSE})
    \/ ClockAdvance

SpecLive ==
    /\ Init
    /\ [][NextLive]_vars
    /\ WF_vars(TimerFire)
    /\ WF_vars(DetectFaces(Detections(RaisedFaces) \ {<<>>}, {FALSE}))
    /\ WF_vars(ClockAdvance)

----------------------------------------------------------------------------
(* Properties *)

\* a step in which a detection resolves and detectFaces runs to its end
Tick == inFlight' = inFlight - 1

InUnitRange(v) == ~IsNaN(v) /\ ~Less[v, Num(0)] /\ ~Less[Num(1), v]

WellFormedEntries(log) == {i \in DOMAIN log : WellFormed(log[i].face)}

LastWellFormed(log) ==
    CHOOSE i \in WellFormedEntries(log) : \A j \in WellFormedEntries(log) : j <= i

DrawnFor(drawn, i) == {c \in drawn : c.face = i}

\* C1: in every reachable state getBrows() and getMouthOpen() lie in the
\* closed range [0, 1], whatever the landmarks and the thresholds of the panel.
C1_SignalsInUnitRange == InUnitRange(leftEyebrowRaise) /\ InUnitRange(mouthOpen)

\* C2: every tick that processes a face with 6-point eyes leaves in
\* getBrows() the normalized left-eyebrow raise of that face and in
\* getMouthOpen() its normalized mouth openness, whatever showGraphics and
\* showLandmarks are.
C2_TickRecomputesBothSignals ==
    [][Tick /\ WellFormedEntries(tickLog') # {} =>
         LET face == tickLog'[LastWellFormed(tickLog')].face
         IN  /\ leftEyebrowRaise' =
                    CalculateEyebrowRaise(face.leftEyebrow, face.leftEye, Settings)
             /\ mouthOpen' = CalculateMouthOpen(face.mouth, Settings)]_vars

\* C3: resetGame() is called only within a tick, for a face with 6-point
\* eyes whose left-eyebrow raise, just computed, is above 0.7, and while
\* isGameRunning() is false: never while the game runs, never on a tick
\* without a face, never for the right eyebrow alone.
C3_ResetOnlyForRaisedLeftBrow ==
    [][resetCalls' # resetCalls =>
         /\ Tick
         /\ tickLog' # <<>>
         /\ Len(resetCalls') - Len(resetCalls) =
                Cardinality({i \in DOMAIN tickLog' : tickLog'[i].reset})
         /\ \A i \in DOMAIN tickLog' :
               tickLog'[i].reset =>
                  /\ ~tickLog'[i].running
                  /\ WellFormed(tickLog'[i].face)
                  /\ Less[ResetThreshold,
                          CalculateEyebrowRaise(tickLog'[i].face.leftEyebrow,
                                                tickLog'[i].face.leftEye, Settings)]]_vars

\* C3, its case: the tick just done went through a face whose right eyebrow
\* alone is raised and through one for which it called resetGame()
C3_Witness ==
    /\ \E i \in DOMAIN tickLog : tickLog[i].reset
    /\ \E i \in DOMAIN tickLog : tickLog[i].face = FaceRightOnly /\ ~tickLog[i].reset

\* C4: any two calls of resetGame() are more than 3000 ms of Date.now()
\* apart, and lastResetTime is the time of the latest call, 0 before the
\* first.
C4_ResetsDebounced ==
    /\ \A i, j \in DOMAIN resetCalls :
          i < j => resetCalls[j] - resetCalls[i] > ResetDebounce
    /\ lastResetTime = IF resetCalls = <<>> THEN 0 ELSE resetCalls[Len(resetCalls)]

\* C4, its case: resetGame() has been called twice, with a tick in flight
C4_Witness == Len(resetCalls) >= 2 /\ inFlight > 0

\* C5: at no time are two executions of detectFaces in flight together.
C5_TicksNeverOverlap == inFlight <= 1

\* C6: at most one interval timer is active, it is the one intervalId holds,
\* and its period is the current settings.detectionInterval.
C6_OneTimerOfCurrentPeriod ==
    /\ Cardinality(timers) <= 1
    /\ \A t \in timers : t.id = intervalId /\ t.period = Settings.detectionInterval

\* C6, its case: the timer runs at a period set through the panel
C6_Witness ==
    /\ timers # {}
    /\ Settings.detectionInterval # defaultSettings.detectionInterval
    /\ Settings.inputSize # defaultSettings.inputSize

\* C7: a face whose left or right eye does not have 6 points only gets a
\* message logged: the signals and lastResetTime stay as they were,
\* resetGame() is not called, nothing is drawn for it, and the other faces
\* of the tick are still processed.
C7_MalformedFaceOnlyLogged ==
    \A i \in DOMAIN tickLog :
       /\ tickLog[i].of = Len(tickLog)
       /\ ~WellFormed(tickLog[i].face) =>
             /\ tickLog[i].logged
             /\ tickLog[i].kept
             /\ ~tickLog[i].reset
             /\ DrawnFor(canvas, i) = {}

\* C7, amended: as C7, but what is not drawn for such a face is what the loop
\* draws (circles, diamond); with showLandmarks set, the overlay drawn before
\* the loop shows its detection, landmarks and expressions like any face's.
C7_MalformedFaceOnlyLoggedByLoop ==
    [][Tick =>
         \A i \in DOMAIN tickLog' :
            /\ tickLog'[i].of = Len(tickLog')
            /\ ~WellFormed(tickLog'[i].face) =>
                  /\ tickLog'[i].logged
                  /\ tickLog'[i].kept
                  /\ ~tickLog'[i].reset
                  /\ DrawnFor(canvas', i) =
                        IF Settings.showLandmarks
                        THEN DrawnFor(DrawOverlay(Len(tickLog')), i)
                        ELSE {}]_vars

\* C7, its case: a malformed face, met while the signals were not zero, and
\* after it a well-formed one that got its circle
C7_Witness ==
    \E i \in DOMAIN tickLog :
       /\ ~WellFormed(tickLog[i].face)
       /\ leftEyebrowRaise # Num(0)
       /\ i < Len(tickLog)
       /\ WellFormed(tickLog[i + 1].face)
       /\ \E c \in DrawnFor(canvas, i + 1) : c.shape = "circle"

\* C8: after every change made through the panel the item stored under
\* "faceDetectionSettings" decodes to the settings in memory, and loadSettings()
\* on it returns that record.
C8_SavedSettingsRoundTrip ==
    [][localStorage' # localStorage \/ objects' # objects =>
         /\ localStorage'.has
         /\ JSONparse(localStorage'.text) = Settings'
         /\ LoadSettings(localStorage', [defaultSettings |-> defaultSettings])
               .objects.loaded = Settings']_vars

\* C8, its case: the panel's changes have been saved
C8_Witness ==
    /\ localStorage.has
    /\ JSONparse(localStorage.text) = Settings
    /\ ~Settings.showGraphics
    /\ Settings.model # defaultSettings.model
    /\ Settings.pitchCeil # defaultSettings.pitchCeil

\* C9: loadSettings() returns a record with every key of defaultSettings:
\* defaultSettings when nothing is saved, and otherwise the saved record with
\* its values kept and the default keys it lacks at their defaults;
\* defaultSettings itself is never modified.
C9_LoadSettingsFillsDefaults ==
    LET loaded == LoadSettings(localStorage, [defaultSettings |-> objects.defaultSettings])
                     .objects.loaded
        saved == JSONparse(localStorage.text)
    IN  /\ DOMAIN defaultSettings \subseteq DOMAIN loaded
        /\ ~localStorage.has => loaded = defaultSettings
        /\ localStorage.has =>
              /\ DOMAIN loaded = DOMAIN saved \cup DOMAIN defaultSettings
              /\ \A k \in DOMAIN saved : loaded[k] = saved[k]
              /\ \A k \in DOMAIN defaultSettings \ DOMAIN saved :
                    loaded[k] = defaultSettings[k]
        /\ initPc = "models" => Settings = loaded
        /\ objects.defaultSettings = defaultSettings

\* C9, its case: the page has loaded a record saved without the pitch keys
C9_Witness ==
    /\ initPc = "models"
    /\ localStorage.has
    /\ "pitchFloor" \notin DOMAIN JSONparse(localStorage.text)
    /\ Settings.pitchFloor = defaultSettings.pitchFloor
    /\ Settings.mouthThresholdFloor # defaultSettings.mouthThresholdFloor

\* C10: while the timer keeps firing, the clock keeps advancing, the game
\* stays stopped and every tick detects a face with its left eyebrow raised
\* above 0.7, resetGame() is eventually called: on the first such tick when
\* no reset has happened, and otherwise no later than the first such tick
\* more than 3000 ms after the previous reset.
C10_RaisedBrowEventuallyResets ==
    /\ \A n \in 0..(MaxElapsed \div ResetDebounce) :
          (/\ timers # {}
           /\ Len(resetCalls) = n
           /\ lastResetTime + ResetDebounce + (ResetDebounce \div 2) <= EndTime)
             ~> (Len(resetCalls) > n)
    /\ [][Tick /\ tickLog' # <<>> /\ now - lastResetTime > ResetDebounce =>
             Len(resetCalls') = Len(resetCalls) + 1]_vars

\* C10, its case: a second reset, once the debounce period was over, with
\* the game stopped and the left eyebrow still raised
C10_Witness ==
    /\ Len(resetCalls) >= 2
    /\ ~gameRunning
    /\ Less[ResetThreshold, leftEyebrowRaise]

====
